---- MODULE Spec2Model ----
(***************************************************************************)
(* The quilt organizer (src/src/App.tsx): the square list and the quilt    *)
(* configuration held by App, the SquareCreator form, and the drag and     *)
(* edit state held by QuiltCanvas, with findNearestAvailablePosition.      *)
(*                                                                         *)
(* Lengths are integers counting eighths of an inch, so that 0.5 inch is 4 *)
(* and values off the half-inch grid (1/8, 1/4, 3/8 inch ...) exist.  All  *)
(* such values are exact in IEEE doubles, so the arithmetic of the code is *)
(* exact on them.  The code compares Math.sqrt of sums of squares; sqrt is *)
(* strictly increasing and the sums here are small integers over 64, so    *)
(* the model compares the sums of squares themselves.                      *)
(***************************************************************************)
EXTENDS Integers, Sequences, FiniteSets, TLC

VARIABLES
    quilt,          \* App: useState<Quilt>
    squares,        \* App: useState<QuiltSquare[]>
    now,            \* the clock read by Date.now()
    width,          \* SquareCreator: useState(12)
    height,         \* SquareCreator: useState(12)
    draggedSquare,  \* QuiltCanvas: useState<QuiltSquare | null>
    editingSquare,  \* QuiltCanvas: useState<QuiltSquare | null>
    editWidth,      \* QuiltCanvas: useState(12)
    editHeight,     \* QuiltCanvas: useState(12)
    last            \* the last handler that ran, with the state it ran in

vars == <<quilt, squares, now, width, height, draggedSquare, editingSquare,
          editWidth, editHeight, last>>

----------------------------------------------------------------------------
(* Bounds of the model *)

MaxSquares == 1
MaxDropSquares == 3
MaxSceneSquares == 2
MaxOpsSquares == 2
MaxOpsNow == 1
NumDetColors == 2
MaxNow == 2
MaxPointer == 12
NumColors == 1

----------------------------------------------------------------------------
(* Numbers *)

Inches(n) == 8 * n

Max(a, b) == IF a >= b THEN a ELSE b

Min(a, b) == IF a <= b THEN a ELSE b

\* Snap to the quarter of an inch: Math.round(v * 4) / 4
Snap_Quarter(v) == ((v + 1) \div 2) * 2

\* Math.round(v * 2) / 2: Math.round rounds halves towards +Infinity.
Snap(v) == ((v + 2) \div 4) * 4

\* Math.max(0, Math.min(v, hi))
Clamp(v, hi) == Max(0, Min(v, hi))

\* const step = 0.5
step == 4

\* the "+ 2" of the holding row
HoldingOffset == Inches(2)

\* the value of a number input: parseFloat(e.target.value)
NaN == [isNaN |-> TRUE, value |-> 0]

Num(v) == [isNaN |-> FALSE, value |-> v]

----------------------------------------------------------------------------
(* Geometry *)

totalWidth(q) == q.width + 2 * q.buffer

totalHeight(q) == q.height + 2 * q.buffer

null == [id |-> -1, width |-> 0, height |-> 0, color |-> 0,
         x |-> 0, y |-> 0, isInQuilt |-> FALSE]

Colors == 1 .. NumColors

\* the box of width w and height h at (bx, by) against the square sq
Overlaps(bx, by, w, h, sq) ==
    ~ (   bx + w <= sq.x
       \/ sq.x + sq.width <= bx
       \/ by + h <= sq.y
       \/ sq.y + sq.height <= by)

\* hasOverlap without the test of the identifier: the dragged square is
\* tested against its own committed box
hasOverlap_NoSelf(bx, by, d, existingSquares) ==
    \E i \in DOMAIN existingSquares :
        Overlaps(bx, by, d.width, d.height, existingSquares[i])

\* existingSquares.some(square => square.id !== draggedSquare.id && overlap)
hasOverlap(bx, by, d, existingSquares) ==
    \E i \in DOMAIN existingSquares :
        /\ existingSquares[i].id # d.id
        /\ Overlaps(bx, by, d.width, d.height, existingSquares[i])

\* (snappedX - draggedSquare.x)^2 + (snappedY - draggedSquare.y)^2
distance(sx, sy, d) == (sx - d.x) * (sx - d.x) + (sy - d.y) * (sy - d.y)

\* ScanCell with <= for <: of the cells at the least distance the last one
\* scanned wins
ScanCell_LastWins(sx, sy, d, existingSquares, acc) ==
    IF hasOverlap(sx, sy, d, existingSquares)
    THEN acc
    ELSE IF acc.infinite \/ distance(sx, sy, d) <= acc.minDistance
         THEN [infinite |-> FALSE, minDistance |-> distance(sx, sy, d),
               x |-> sx, y |-> sy]
         ELSE acc

\* one cell of the scan: the body of the inner loop
ScanCell(sx, sy, d, existingSquares, acc) ==
    IF hasOverlap(sx, sy, d, existingSquares)
    THEN acc
    ELSE IF acc.infinite \/ distance(sx, sy, d) < acc.minDistance
         THEN [infinite |-> FALSE, minDistance |-> distance(sx, sy, d),
               x |-> sx, y |-> sy]
         ELSE acc

\* e, once v is evaluated: a loop has computed minDistance and nearestPos
\* before its next iteration, where TLC would put the computation off
Having(v, e) == IF v = v THEN e ELSE e

\* Iterations with v < limit: the last column or row is not scanned
Iterations_SkipLast(limit) ==
    IF limit <= 0 THEN 0 ELSE ((limit - 1) \div step) + 1

\* how many times the body of for (let v = 0; v <= limit; v += step) runs
Iterations(limit) ==
    IF limit < 0 THEN 0 ELSE (limit \div step) + 1

RECURSIVE ScanXs(_, _, _, _, _, _)
\* n consecutive iterations of the loop on x, the first at x: the first
\* half of them, then the second half on what the first half has found
ScanXs(x, n, sy, d, existingSquares, acc) ==
    Having(acc,
           IF n = 0 THEN acc
           ELSE IF n = 1
           THEN ScanCell(Snap(x), sy, d, existingSquares, acc)
           ELSE ScanXs(x + (n \div 2) * step, n - (n \div 2), sy, d,
                       existingSquares,
                       ScanXs(x, n \div 2, sy, d, existingSquares, acc)))

\* for (let x = 0; x <= totalWidth - squareWidth; x += step)
ScanX(sy, d, existingSquares, q, acc) ==
    ScanXs(0, Iterations(totalWidth(q) - d.width), sy, d,
           existingSquares, acc)

RECURSIVE ScanYs(_, _, _, _, _, _)
\* n consecutive iterations of the loop on y, the first at y
ScanYs(y, n, d, existingSquares, q, acc) ==
    Having(acc,
           IF n = 0 THEN acc
           ELSE IF n = 1
           THEN ScanX(Snap(y), d, existingSquares, q, acc)
           ELSE ScanYs(y + (n \div 2) * step, n - (n \div 2), d,
                       existingSquares, q,
                       ScanYs(y, n \div 2, d, existingSquares, q, acc)))

\* for (let y = 0; y <= totalHeight - squareHeight; y += step)
ScanY(d, existingSquares, q, acc) ==
    ScanYs(0, Iterations(totalHeight(q) - d.height), d, existingSquares,
           q, acc)

bestX(d, q) == Clamp(Snap(d.x), totalWidth(q) - d.width)

bestY(d, q) == Clamp(Snap(d.y), totalHeight(q) - d.height)

\* findNearestAvailablePosition with nearestPos starting at the corner of
\* the surface
findNearestAvailablePosition_Corner(d, existingSquares, q) ==
    IF ~ hasOverlap(bestX(d, q), bestY(d, q), d, existingSquares)
    THEN [x |-> bestX(d, q), y |-> bestY(d, q)]
    ELSE LET nearestPos ==
                 ScanY(d, existingSquares, q,
                    [infinite |-> TRUE, minDistance |-> 0,
                     x |-> 0, y |-> 0])
         IN  [x |-> nearestPos.x, y |-> nearestPos.y]

findNearestAvailablePosition(d, existingSquares, q) ==
    IF ~ hasOverlap(bestX(d, q), bestY(d, q), d, existingSquares)
    THEN [x |-> bestX(d, q), y |-> bestY(d, q)]
    ELSE LET nearestPos ==
                 ScanY(d, existingSquares, q,
                    [infinite |-> TRUE, minDistance |-> 0,
                     x |-> bestX(d, q), y |-> bestY(d, q)])
         IN  [x |-> nearestPos.x, y |-> nearestPos.y]

\* squares.filter(square => square.isInQuilt)
quiltSquares(sqs) == SelectSeq(sqs, LAMBDA s : s.isInQuilt)

\* squares.filter(square => !square.isInQuilt)
extraSquares(sqs) == SelectSeq(sqs, LAMBDA s : ~ s.isInQuilt)

----------------------------------------------------------------------------
(* App: the state container *)

\* newSquare with the holding row taken from the quilt height alone
newSquare_NoBuffer(w, h, c) ==
    [id |-> now, width |-> w, height |-> h, color |-> c,
     x |-> 0, y |-> quilt.height + HoldingOffset, isInQuilt |-> FALSE]

newSquare(w, h, c) ==
    [id |-> now, width |-> w, height |-> h, color |-> c,
     x |-> 0, y |-> totalHeight(quilt) + HoldingOffset, isInQuilt |-> FALSE]

\* updateSquarePosition without the test of the identifier
updateSquarePosition_All(sqs, id, x, y, isInQuilt) ==
    [i \in DOMAIN sqs |->
        [sqs[i] EXCEPT !.x = x, !.y = y, !.isInQuilt = isInQuilt]]

updateSquarePosition(sqs, id, x, y, isInQuilt) ==
    [i \in DOMAIN sqs |->
        IF sqs[i].id = id
        THEN [sqs[i] EXCEPT !.x = x, !.y = y, !.isInQuilt = isInQuilt]
        ELSE sqs[i]]

\* updateSquareDimensions sending the resized square back to holding
updateSquareDimensions_Unplace(sqs, id, w, h) ==
    [i \in DOMAIN sqs |->
        IF sqs[i].id = id
        THEN [sqs[i] EXCEPT !.width = w, !.height = h, !.isInQuilt = FALSE]
        ELSE sqs[i]]

updateSquareDimensions(sqs, id, w, h) ==
    [i \in DOMAIN sqs |->
        IF sqs[i].id = id
        THEN [sqs[i] EXCEPT !.width = w, !.height = h]
        ELSE sqs[i]]

filterOut(sqs, id) == SelectSeq(sqs, LAMBDA s : s.id # id)

\* what last keeps of a handler that is not a drag-end
Did(op) == [op |-> op, squares |-> << >>, final |-> null]

\* what last keeps of a drag-end: the square list and the dragged square it
\* ran with
Dropped == [op |-> "drop", squares |-> squares, final |-> draggedSquare]

Init ==
    /\ quilt = [width |-> Inches(60), height |-> Inches(48), buffer |-> Inches(5)]
    /\ squares = << >>
    /\ now = 0
    /\ width = Inches(12)
    /\ height = Inches(12)
    /\ draggedSquare = null
    /\ editingSquare = null
    /\ editWidth = Inches(12)
    /\ editHeight = Inches(12)
    /\ last = Did("init")

\* time passes between two events
Tick ==
    /\ now' = now + 1
    /\ last' = Did("tick")
    /\ UNCHANGED <<quilt, squares, width, height, draggedSquare, editingSquare,
                   editWidth, editHeight>>

\* onChange of the quilt width input
SetQuiltWidth(v) ==
    /\ quilt' = IF ~ v.isNaN /\ v.value > 0
                THEN [quilt EXCEPT !.width = v.value]
                ELSE quilt
    /\ last' = Did("setQuilt")
    /\ UNCHANGED <<squares, now, width, height, draggedSquare, editingSquare,
                   editWidth, editHeight>>

\* onChange of the quilt height input
SetQuiltHeight(v) ==
    /\ quilt' = IF ~ v.isNaN /\ v.value > 0
                THEN [quilt EXCEPT !.height = v.value]
                ELSE quilt
    /\ last' = Did("setQuilt")
    /\ UNCHANGED <<squares, now, width, height, draggedSquare, editingSquare,
                   editWidth, editHeight>>

\* SetQuiltBuffer without value >= 0: every number is taken
SetQuiltBuffer_Any(v) ==
    /\ quilt' = IF ~ v.isNaN
                THEN [quilt EXCEPT !.buffer = v.value]
                ELSE quilt
    /\ last' = Did("setQuilt")
    /\ UNCHANGED <<squares, now, width, height, draggedSquare, editingSquare,
                   editWidth, editHeight>>

\* onChange of the quilt buffer input
SetQuiltBuffer(v) ==
    /\ quilt' = IF ~ v.isNaN /\ v.value >= 0
                THEN [quilt EXCEPT !.buffer = v.value]
                ELSE quilt
    /\ last' = Did("setQuilt")
    /\ UNCHANGED <<squares, now, width, height, draggedSquare, editingSquare,
                   editWidth, editHeight>>

\* onChange of the width input of the SquareCreator form
SetWidth(v) ==
    /\ width' = IF ~ v.isNaN /\ v.value > 0 THEN v.value ELSE width
    /\ last' = Did("setForm")
    /\ UNCHANGED <<quilt, squares, now, height, draggedSquare, editingSquare,
                   editWidth, editHeight>>

\* onChange of the height input of the SquareCreator form
SetHeight(v) ==
    /\ height' = IF ~ v.isNaN /\ v.value > 0 THEN v.value ELSE height
    /\ last' = Did("setForm")
    /\ UNCHANGED <<quilt, squares, now, width, draggedSquare, editingSquare,
                   editWidth, editHeight>>

\* SquareCreator.addSquare -> App.addSquare, the colour drawn being c
AddSquare(c) ==
    /\ squares' = Append(squares, newSquare(width, height, c))
    /\ last' = Did("addSquare")
    /\ UNCHANGED <<quilt, now, width, height, draggedSquare, editingSquare,
                   editWidth, editHeight>>

\* App.removeSquare
RemoveSquare(id) ==
    /\ squares' = filterOut(squares, id)
    /\ last' = Did("removeSquare")
    /\ UNCHANGED <<quilt, now, width, height, draggedSquare, editingSquare,
                   editWidth, editHeight>>

----------------------------------------------------------------------------
(* QuiltCanvas: dragging *)

\* setDraggedSquare(square)
StartDrag(i) ==
    /\ draggedSquare' = squares[i]
    /\ last' = Did("dragStart")
    /\ UNCHANGED <<quilt, squares, now, width, height, editingSquare,
                   editWidth, editHeight>>

handleMouseDown(i) == StartDrag(i)

handleTouchStart(i) == StartDrag(i)

\* MoveDrag with y clamped into the surface as x is
MoveDrag_ClampY(x, y) ==
    /\ draggedSquare # null
    /\ draggedSquare' =
         [draggedSquare EXCEPT
             !.x = Clamp(Snap(x), totalWidth(quilt) - draggedSquare.width),
             !.y = Clamp(Snap(y), totalHeight(quilt) - draggedSquare.height)]
    /\ last' = Did("dragMove")
    /\ UNCHANGED <<quilt, squares, now, width, height, editingSquare,
                   editWidth, editHeight>>

\* the pointer at (x, y), in eighths of an inch from the canvas corner, the
\* drag offset taken off
MoveDrag(x, y) ==
    /\ draggedSquare # null
    /\ draggedSquare' =
         [draggedSquare EXCEPT
             !.x = Clamp(Snap(x), totalWidth(quilt) - draggedSquare.width),
             !.y = Snap(y)]
    /\ last' = Did("dragMove")
    /\ UNCHANGED <<quilt, squares, now, width, height, editingSquare,
                   editWidth, editHeight>>

handleDocumentMouseMove(x, y) == MoveDrag(x, y)

handleDocumentTouchMove(x, y) == MoveDrag(x, y)

\* isWithinCanvas with < for <=: a box that touches the right or the bottom
\* edge is not in the surface
isWithinCanvas_Strict(finalSquare, q) ==
    /\ finalSquare.x >= 0
    /\ finalSquare.x < totalWidth(q) - finalSquare.width
    /\ finalSquare.y >= 0
    /\ finalSquare.y < totalHeight(q) - finalSquare.height

\* isWithinCanvas on the corner of the box alone, as the variant without
\* buffer tests it
isWithinCanvas_Corner(finalSquare, q) ==
    /\ finalSquare.x >= 0 /\ finalSquare.x < totalWidth(q)
    /\ finalSquare.y >= 0 /\ finalSquare.y < totalHeight(q)

\* isWithinCanvas without finalSquare.y >= 0
isWithinCanvas_NoTop(finalSquare, q) ==
    /\ finalSquare.x >= 0
    /\ finalSquare.x <= totalWidth(q) - finalSquare.width
    /\ finalSquare.y <= totalHeight(q) - finalSquare.height

isWithinCanvas(finalSquare, q) ==
    /\ finalSquare.x >= 0
    /\ finalSquare.x <= totalWidth(q) - finalSquare.width
    /\ finalSquare.y >= 0
    /\ finalSquare.y <= totalHeight(q) - finalSquare.height

\* resolveDrop with the holding row at totalHeight, not totalHeight + 2
resolveDrop_NoOffset(finalSquare, sqs, q) ==
    IF isWithinCanvas(finalSquare, q)
    THEN LET snappedPosition ==
                 findNearestAvailablePosition(finalSquare, quiltSquares(sqs), q)
         IN  [x |-> snappedPosition.x, y |-> snappedPosition.y,
              isInQuilt |-> TRUE]
    ELSE [x |-> Clamp(finalSquare.x, totalWidth(q) - finalSquare.width),
          y |-> totalHeight(q),
          isInQuilt |-> FALSE]

\* resolveDrop with a drop that finds no free cell undone: the square keeps
\* the position and membership it had
resolveDrop_Undo(finalSquare, sqs, q) ==
    IF isWithinCanvas(finalSquare, q)
    THEN LET snappedPosition ==
                 findNearestAvailablePosition(finalSquare, quiltSquares(sqs), q)
             mine == {i \in DOMAIN sqs : sqs[i].id = finalSquare.id}
         IN  IF /\ mine # {}
                /\ hasOverlap(snappedPosition.x, snappedPosition.y,
                              finalSquare, quiltSquares(sqs))
             THEN LET old == sqs[CHOOSE i \in mine : TRUE]
                  IN  [x |-> old.x, y |-> old.y, isInQuilt |-> old.isInQuilt]
             ELSE [x |-> snappedPosition.x, y |-> snappedPosition.y,
                   isInQuilt |-> TRUE]
    ELSE [x |-> Clamp(finalSquare.x, totalWidth(q) - finalSquare.width),
          y |-> totalHeight(q) + HoldingOffset,
          isInQuilt |-> FALSE]

\* resolveDrop sending the squares of the second colour to holding
resolveDrop_ByColour(finalSquare, sqs, q) ==
    IF isWithinCanvas(finalSquare, q) /\ finalSquare.color # 2
    THEN LET snappedPosition ==
                 findNearestAvailablePosition(finalSquare, quiltSquares(sqs), q)
         IN  [x |-> snappedPosition.x, y |-> snappedPosition.y,
              isInQuilt |-> TRUE]
    ELSE [x |-> Clamp(finalSquare.x, totalWidth(q) - finalSquare.width),
          y |-> totalHeight(q) + HoldingOffset,
          isInQuilt |-> FALSE]

\* the position and membership a drag-end gives the dragged square
resolveDrop(finalSquare, sqs, q) ==
    IF isWithinCanvas(finalSquare, q)
    THEN LET snappedPosition ==
                 findNearestAvailablePosition(finalSquare, quiltSquares(sqs), q)
         IN  [x |-> snappedPosition.x, y |-> snappedPosition.y,
              isInQuilt |-> TRUE]
    ELSE [x |-> Clamp(finalSquare.x, totalWidth(q) - finalSquare.width),
          y |-> totalHeight(q) + HoldingOffset,
          isInQuilt |-> FALSE]

\* EndDrag without setDraggedSquare(null): the drag goes on after the commit
EndDrag_KeepDrag ==
    IF draggedSquare = null
    THEN UNCHANGED vars
    ELSE LET r == resolveDrop(draggedSquare, squares, quilt)
         IN  /\ squares' = updateSquarePosition(squares, draggedSquare.id,
                                                r.x, r.y, r.isInQuilt)
             /\ last' = Dropped
             /\ UNCHANGED <<quilt, now, width, height, draggedSquare,
                            editingSquare, editWidth, editHeight>>

EndDrag ==
    IF draggedSquare = null
    THEN UNCHANGED vars
    ELSE LET r == resolveDrop(draggedSquare, squares, quilt)
         IN  /\ squares' = updateSquarePosition(squares, draggedSquare.id,
                                                r.x, r.y, r.isInQuilt)
             /\ draggedSquare' = null
             /\ last' = Dropped
             /\ UNCHANGED <<quilt, now, width, height, editingSquare,
                            editWidth, editHeight>>

handleDocumentMouseUp == EndDrag

handleDocumentTouchEnd == EndDrag

----------------------------------------------------------------------------
(* QuiltCanvas: the edit dimensions dialog *)

\* the edit button, which only the squares in holding show
startEditingSquare(i) ==
    /\ ~ squares[i].isInQuilt
    /\ editingSquare' = squares[i]
    /\ editWidth' = squares[i].width
    /\ editHeight' = squares[i].height
    /\ last' = Did("startEditing")
    /\ UNCHANGED <<quilt, squares, now, width, height, draggedSquare>>

cancelEditingSquare ==
    /\ editingSquare # null
    /\ editingSquare' = null
    /\ last' = Did("cancelEditing")
    /\ UNCHANGED <<quilt, squares, now, width, height, draggedSquare,
                   editWidth, editHeight>>

\* parseFloat(e.target.value) || 1
OrOne(v) == IF v.isNaN \/ v.value = 0 THEN Inches(1) ELSE v.value

SetEditWidth(v) ==
    /\ editingSquare # null
    /\ editWidth' = OrOne(v)
    /\ last' = Did("setEdit")
    /\ UNCHANGED <<quilt, squares, now, width, height, draggedSquare,
                   editingSquare, editHeight>>

SetEditHeight(v) ==
    /\ editingSquare # null
    /\ editHeight' = OrOne(v)
    /\ last' = Did("setEdit")
    /\ UNCHANGED <<quilt, squares, now, width, height, draggedSquare,
                   editingSquare, editWidth>>

saveSquareDimensions ==
    /\ editingSquare # null
    /\ squares' = updateSquareDimensions(squares, editingSquare.id,
                                         editWidth, editHeight)
    /\ editingSquare' = null
    /\ last' = Did("saveDimensions")
    /\ UNCHANGED <<quilt, now, width, height, draggedSquare, editWidth,
                   editHeight>>

----------------------------------------------------------------------------
(* The application from its construction, on small sets of inputs: the     *)
(* quilt inputs, the SquareCreator form, removal and dragging.             *)

QuiltWidthInputs == {NaN, Num(Inches(2))}

QuiltHeightInputs == {Num(0), Num(Inches(2))}

QuiltBufferInputs == {Num(0 - Inches(1)), Num(0)}

FormWidthInputs == {NaN, Num(9)}

FormHeightInputs == {Num(0), Num(Inches(12))}

PointerXs == {0, Inches(80)}

PointerYs == {0 - Inches(1), 3, Inches(80)}

Next ==
    \/ now < MaxNow /\ Tick
    \/ \E v \in QuiltWidthInputs : SetQuiltWidth(v)
    \/ \E v \in QuiltHeightInputs : SetQuiltHeight(v)
    \/ \E v \in QuiltBufferInputs : SetQuiltBuffer(v)
    \/ \E v \in FormWidthInputs : SetWidth(v)
    \/ \E v \in FormHeightInputs : SetHeight(v)
    \/ \E c \in Colors : Len(squares) < MaxSquares /\ AddSquare(c)
    \/ \E i \in DOMAIN squares : RemoveSquare(squares[i].id)
    \/ \E i \in DOMAIN squares : handleMouseDown(i)
    \/ \E i \in DOMAIN squares : handleTouchStart(i)
    \/ \E x \in PointerXs, y \in PointerYs : handleDocumentMouseMove(x, y)
    \/ \E x \in PointerXs, y \in PointerYs : handleDocumentTouchMove(x, y)
    \/ handleDocumentMouseUp
    \/ handleDocumentTouchEnd

Spec == Init /\ [][Next]_vars

----------------------------------------------------------------------------
(* The application from its construction with the dialog that edits the    *)
(* dimensions of a square of the holding area, the quilt left as it is.    *)

EditInputs == {NaN, Num(0 - Inches(1))}

NextEdit ==
    \/ \E v \in FormWidthInputs : SetWidth(v)
    \/ \E c \in Colors : Len(squares) < MaxSquares /\ AddSquare(c)
    \/ \E i \in DOMAIN squares : RemoveSquare(squares[i].id)
    \/ \E i \in DOMAIN squares : handleMouseDown(i)
    \/ \E x \in PointerXs, y \in PointerYs : handleDocumentMouseMove(x, y)
    \/ handleDocumentMouseUp
    \/ \E i \in DOMAIN squares : startEditingSquare(i)
    \/ cancelEditingSquare
    \/ \E v \in EditInputs : SetEditWidth(v)
    \/ \E v \in EditInputs : SetEditHeight(v)
    \/ saveSquareDimensions

SpecEdit == Init /\ [][NextEdit]_vars

----------------------------------------------------------------------------
(* Creating and dragging squares on a quilt of 2 x 1.5 inches, which the   *)
(* quilt inputs and the form inputs reach from Init before any square is   *)
(* created: with no buffer, or as 1 x 0.5 inches with a buffer of 0.5.     *)

DropQuilts ==
    { [width |-> Inches(2), height |-> 12, buffer |-> 0],
      [width |-> Inches(1), height |-> 4, buffer |-> 4] }

DropWidthInputs == {Num(Inches(1)), Num(Inches(2))}

DropPointerXs == {0, Inches(5)}

DropPointerYs == {0 - Inches(1), 3, Inches(5)}

InitDrop ==
    /\ quilt \in DropQuilts
    /\ squares = << >>
    /\ now = 0
    /\ width = Inches(1)
    /\ height = Inches(1)
    /\ draggedSquare = null
    /\ editingSquare = null
    /\ editWidth = Inches(12)
    /\ editHeight = Inches(12)
    /\ last = Did("init")

NextDrop ==
    \/ now < MaxNow /\ Tick
    \/ \E v \in DropWidthInputs : SetWidth(v)
    \/ \E c \in Colors : Len(squares) < MaxDropSquares /\ AddSquare(c)
    \/ \E i \in DOMAIN squares : handleMouseDown(i)
    \/ \E i \in DOMAIN squares : handleTouchStart(i)
    \/ \E x \in DropPointerXs, y \in DropPointerYs :
           handleDocumentMouseMove(x, y)
    \/ \E x \in DropPointerXs, y \in DropPointerYs :
           handleDocumentTouchMove(x, y)
    \/ handleDocumentMouseUp
    \/ handleDocumentTouchEnd

SpecDrop == InitDrop /\ [][NextDrop]_vars

----------------------------------------------------------------------------
(* Creating and dragging squares of 12 x 12 inches, the size the form      *)
(* starts with, on a quilt of 60 x 48 inches whose buffer was set to 0.    *)

SceneQuilt == [width |-> Inches(60), height |-> Inches(48), buffer |-> 0]

ScenePointerXs == {0, Inches(100)}

ScenePointerYs == {0, Inches(100)}

InitScene ==
    /\ quilt = SceneQuilt
    /\ squares = << >>
    /\ now = 0
    /\ width = Inches(12)
    /\ height = Inches(12)
    /\ draggedSquare = null
    /\ editingSquare = null
    /\ editWidth = Inches(12)
    /\ editHeight = Inches(12)
    /\ last = Did("init")

NextScene ==
    \/ now < MaxNow /\ Tick
    \/ \E c \in Colors : Len(squares) < MaxSceneSquares /\ AddSquare(c)
    \/ \E i \in DOMAIN squares : handleMouseDown(i)
    \/ \E i \in DOMAIN squares : handleTouchStart(i)
    \/ \E x \in ScenePointerXs, y \in ScenePointerYs :
           handleDocumentMouseMove(x, y)
    \/ \E x \in ScenePointerXs, y \in ScenePointerYs :
           handleDocumentTouchMove(x, y)
    \/ handleDocumentMouseUp
    \/ handleDocumentTouchEnd

SpecScene == InitScene /\ [][NextScene]_vars

----------------------------------------------------------------------------
(* The vocabulary of the properties.  After a drag-end, last.final is the  *)
(* dragged square as proposed, last.squares the list the drop ran on, and  *)
(* squares the list it left; the quilt is the one the drop ran with.       *)

IsDrop == last.op = "drop"

\* the squares the drop was about, in the list it left
DroppedIn(sqs) == {i \in DOMAIN sqs : sqs[i].id = last.final.id}

OnGrid(v) == v % 4 = 0

\* 0 <= x <= totalWidth - width and 0 <= y <= totalHeight - height
InSurface(x, y, w, h) ==
    /\ 0 <= x /\ x <= totalWidth(quilt) - w
    /\ 0 <= y /\ y <= totalHeight(quilt) - h

ProposedInSurface ==
    InSurface(last.final.x, last.final.y, last.final.width, last.final.height)

\* two boxes share interior points
BoxesOverlap(ax, ay, aw, ah, bx, by, bw, bh) ==
    /\ ax < bx + bw /\ bx < ax + aw
    /\ ay < by + bh /\ by < ay + ah

\* the in-surface squares of the list the drop ran on, the dragged square
\* left out by identifier
Others ==
    {i \in DOMAIN last.squares :
        last.squares[i].isInQuilt /\ last.squares[i].id # last.final.id}

\* the dragged square, put at (x, y), overlaps one of the others
Blocked(x, y) ==
    \E i \in Others :
        BoxesOverlap(x, y, last.final.width, last.final.height,
                     last.squares[i].x, last.squares[i].y,
                     last.squares[i].width, last.squares[i].height)

\* the proposed position, snapped to the half-inch grid and clamped
SnappedX == Max(0, Min(Snap(last.final.x), totalWidth(quilt) - last.final.width))

SnappedY == Max(0, Min(Snap(last.final.y), totalHeight(quilt) - last.final.height))

\* the half-inch grid cells of the surface where the dragged square is free
FreeCells ==
    {c \in (0 .. totalWidth(quilt) - last.final.width)
            \X (0 .. totalHeight(quilt) - last.final.height) :
        OnGrid(c[1]) /\ OnGrid(c[2]) /\ ~ Blocked(c[1], c[2])}

\* the square of the distance from the cell c to the proposed position
Dist2(c) ==
    (c[1] - last.final.x) * (c[1] - last.final.x)
      + (c[2] - last.final.y) * (c[2] - last.final.y)

\* every square the drop was about is committed at (x, y) with membership m
CommittedAt(x, y, m) ==
    /\ DroppedIn(squares) # {}
    /\ \A i \in DroppedIn(squares) :
          squares[i].x = x /\ squares[i].y = y /\ squares[i].isInQuilt = m

\* no two squares of the list sqs that are in the surface overlap
NoOverlapIn(sqs) ==
    \A i, j \in DOMAIN sqs :
        (i # j /\ sqs[i].isInQuilt /\ sqs[j].isInQuilt)
        => ~ BoxesOverlap(sqs[i].x, sqs[i].y, sqs[i].width, sqs[i].height,
                          sqs[j].x, sqs[j].y, sqs[j].width, sqs[j].height)

----------------------------------------------------------------------------
\* C1: after any sequence of createSquare and drag-end calls no two distinct
\* squares in the working surface overlap, unless the surface had no free
\* half-inch cell for the dropped square: a drop onto a list without
\* overlap, made while a free cell exists (or into holding), leaves a list
\* without overlap.  (Init has no square and createSquare adds to holding.)
C1_NoOverlap ==
    (IsDrop /\ NoOverlapIn(last.squares)
            /\ (ProposedInSurface => FreeCells # {}))
    => NoOverlapIn(squares)

\* a drag-end whose proposed position is the dragged square's own committed
\* position
Redrop ==
    /\ IsDrop
    /\ DroppedIn(last.squares) # {}
    /\ \A i \in DroppedIn(last.squares) :
          last.squares[i].x = last.final.x /\ last.squares[i].y = last.final.y

PositionKept ==
    \A i \in DroppedIn(squares) :
        squares[i].x = last.final.x /\ squares[i].y = last.final.y

\* the identifiers of the list the drop ran on are pairwise distinct
DistinctIds ==
    \A i, j \in DOMAIN last.squares :
        i # j => last.squares[i].id # last.squares[j].id

\* C3 as stated, on lists whose identifiers are distinct: a drag-end whose
\* proposed position is the dragged square's own committed position leaves
\* that position unchanged.
C3_RedropAsStated == (Redrop /\ DistinctIds) => PositionKept

\* the committed position is one the resolver finds valid: in the surface, on
\* the half-inch grid and clear of the other in-surface squares, or on the
\* holding row of the current quilt with x in [0, max(0, totalWidth - width)]
ValidAtRest ==
    \/ /\ ProposedInSurface
       /\ OnGrid(last.final.x) /\ OnGrid(last.final.y)
       /\ ~ Blocked(last.final.x, last.final.y)
    \/ /\ ~ ProposedInSurface
       /\ last.final.y = totalHeight(quilt) + Inches(2)
       /\ 0 <= last.final.x
       /\ last.final.x <= Max(0, totalWidth(quilt) - last.final.width)

\* C3, amended: a drag-end whose proposed position is the dragged square's
\* own committed position leaves that position unchanged when the position
\* is valid at rest; a square committed on top of another one moves.
C3_Redrop == (Redrop /\ ValidAtRest) => PositionKept

\* a square of the surface, with another square in the surface, is dropped
\* where it lies and stays there
C3_Witness ==
    /\ Redrop /\ ProposedInSurface /\ Others # {} /\ PositionKept
    /\ \A i \in DroppedIn(squares) : squares[i].isInQuilt
    /\ \A i \in DroppedIn(last.squares) : last.squares[i].isInQuilt

\* C4: a drag-end whose proposed box is not in the surface commits the
\* square in holding, at y = totalHeight + 2 and at the proposed x clamped
\* into [0, totalWidth - width], whatever the other squares are.
C4_HoldingDrop ==
    (IsDrop /\ ~ ProposedInSurface /\ DroppedIn(last.squares) # {})
    => CommittedAt(Max(0, Min(last.final.x,
                              totalWidth(quilt) - last.final.width)),
                   totalHeight(quilt) + Inches(2), FALSE)

\* a square of the surface is dropped above the surface, over the place of
\* another square of the surface, and goes to holding
C4_Witness ==
    /\ IsDrop /\ last.final.y < 0
    /\ Blocked(last.final.x, 0)
    /\ \E i \in DroppedIn(last.squares) : last.squares[i].isInQuilt
    /\ CommittedAt(last.final.x, totalHeight(quilt) + Inches(2), FALSE)

\* C5: when the snapped proposed position overlaps an in-surface square and
\* a free cell exists, the square is committed at a free half-inch cell of
\* the surface whose distance to the proposed position is minimal among the
\* free cells.
SearchedDrop ==
    /\ IsDrop /\ ProposedInSurface /\ DroppedIn(last.squares) # {}
    /\ Blocked(SnappedX, SnappedY)

C5_NearestFree ==
    (SearchedDrop /\ FreeCells # {})
    => \E c \in FreeCells :
          /\ \A i \in DroppedIn(squares) :
                squares[i].x = c[1] /\ squares[i].y = c[2]
          /\ \A e \in FreeCells : Dist2(c) <= Dist2(e)

\* a searched drop with free cells at several distances, committed at a free
\* cell
C5_Witness ==
    /\ SearchedDrop
    /\ \E c, e \in FreeCells : Dist2(c) < Dist2(e)
    /\ \E c \in FreeCells :
          \A i \in DroppedIn(squares) :
              squares[i].x = c[1] /\ squares[i].y = c[2]

\* C7: when an in-surface drop overlaps and no cell is free, the square is
\* committed in the surface at the snapped and clamped proposed position,
\* overlapping.
C7_FullSurface ==
    (SearchedDrop /\ FreeCells = {})
    => CommittedAt(SnappedX, SnappedY, TRUE)

\* a drop into a full surface, away from the corner, committed where it was
\* proposed
C7_Witness ==
    /\ SearchedDrop /\ FreeCells = {}
    /\ SnappedX > 0 /\ SnappedY > 0
    /\ CommittedAt(SnappedX, SnappedY, TRUE)
    /\ ~ NoOverlapIn(squares)

\* C8: every drag-end ends the drag and commits one position and membership
\* decided by the proposal: holding on the holding row when the proposed box
\* is not in the surface, and otherwise the surface, at the snapped proposed
\* position or at a free cell; no drag-end keeps the position the square had.
C8_Total ==
    IsDrop
    => /\ draggedSquare = null
       /\ DroppedIn(squares) = DroppedIn(last.squares)
       /\ \A i \in DroppedIn(squares) :
             /\ squares[i].isInQuilt = ProposedInSurface
             /\ squares[i].isInQuilt
                  => \/ squares[i].x = SnappedX /\ squares[i].y = SnappedY
                     \/ <<squares[i].x, squares[i].y>> \in FreeCells
             /\ ~ squares[i].isInQuilt
                  => squares[i].y = totalHeight(quilt) + Inches(2)

\* a square taken from holding is dropped into a full surface and is
\* committed there all the same
C8_Witness ==
    /\ SearchedDrop /\ FreeCells = {}
    /\ draggedSquare = null
    /\ \E i \in DroppedIn(last.squares) : ~ last.squares[i].isInQuilt
    /\ \A i \in DroppedIn(squares) : squares[i].isInQuilt

\* C9: when the snapped and clamped position of an in-surface drop overlaps
\* no other in-surface square, the dragged square left out by identifier,
\* the square is committed at exactly that position, in the surface.
C9_NoOverlapDrop ==
    (IsDrop /\ ProposedInSurface /\ DroppedIn(last.squares) # {}
            /\ ~ Blocked(SnappedX, SnappedY))
    => CommittedAt(SnappedX, SnappedY, TRUE)

\* a square of the surface is dropped on a place that overlaps its own old
\* box and touches another square of the surface
C9_Witness ==
    /\ IsDrop /\ ProposedInSurface /\ ~ Blocked(SnappedX, SnappedY)
    /\ CommittedAt(SnappedX, SnappedY, TRUE)
    /\ \E i \in DroppedIn(last.squares) :
          /\ last.squares[i].isInQuilt
          /\ <<last.squares[i].x, last.squares[i].y>> # <<SnappedX, SnappedY>>
          /\ BoxesOverlap(SnappedX, SnappedY, last.final.width,
                          last.final.height, last.squares[i].x,
                          last.squares[i].y, last.squares[i].width,
                          last.squares[i].height)
    /\ \E j \in Others :
          \/ last.squares[j].x + last.squares[j].width = SnappedX
          \/ SnappedX + last.final.width = last.squares[j].x

\* the cell c comes before the cell e in the scan: smaller y, then smaller x
ScannedBefore(c, e) == c[2] < e[2] \/ (c[2] = e[2] /\ c[1] <= e[1])

\* where the dragged square was committed
CommittedCell ==
    LET i == CHOOSE i \in DroppedIn(squares) : TRUE
    IN  <<squares[i].x, squares[i].y>>

\* a 12 x 12 square is dropped at (0, 0), where a single other 12 x 12 square
\* of the surface lies, on the quilt of 60 x 48 inches without buffer
SceneDrop ==
    /\ IsDrop /\ quilt = SceneQuilt /\ DroppedIn(last.squares) # {}
    /\ last.final.x = 0 /\ last.final.y = 0
    /\ last.final.width = Inches(12) /\ last.final.height = Inches(12)
    /\ Others # {}
    /\ \A j \in Others :
          /\ last.squares[j].x = 0 /\ last.squares[j].y = 0
          /\ last.squares[j].width = Inches(12)
          /\ last.squares[j].height = Inches(12)

\* C6: of the free cells at the least distance from the proposed position
\* the search returns the first in scan order (smallest y, then smallest
\* x); on the quilt of 60 x 48 without buffer a 12 x 12 square dropped at
\* (0, 0) on another one lying there goes to (12, 0), not to (0, 12).
C6_TieBreak ==
    /\ (SearchedDrop /\ FreeCells # {})
       => /\ CommittedCell \in FreeCells
          /\ \A i \in DroppedIn(squares) :
                <<squares[i].x, squares[i].y>> = CommittedCell
          /\ \A e \in FreeCells :
                \/ Dist2(CommittedCell) < Dist2(e)
                \/ /\ Dist2(CommittedCell) = Dist2(e)
                   /\ ScannedBefore(CommittedCell, e)
    /\ SceneDrop => CommittedAt(Inches(12), 0, TRUE)

\* the drop of the scenario, with (0, 12) free and as near as (12, 0)
C6_Witness ==
    /\ SceneDrop /\ SearchedDrop
    /\ <<0, Inches(12)>> \in FreeCells
    /\ Dist2(<<0, Inches(12)>>) = Dist2(<<Inches(12), 0>>)
    /\ CommittedAt(Inches(12), 0, TRUE)

\* a square of the surface lies within the surface of the current quilt
WithinBounds(sq) ==
    /\ 0 <= sq.x /\ sq.x <= totalWidth(quilt) - sq.width
    /\ 0 <= sq.y /\ sq.y <= totalHeight(quilt) - sq.height

\* C2: in every reachable state every square of the working surface has
\* 0 <= x <= totalWidth - width and 0 <= y <= totalHeight - height, for
\* the totals of the current quilt.  An edit of the quilt leaves the
\* squares where they are.
C2_WithinBounds ==
    \A i \in DOMAIN squares : squares[i].isInQuilt => WithinBounds(squares[i])

\* C10: with no drag in progress the x and y of every square are multiples
\* of 0.5, whatever accepted quilt and square dimensions.  The validation
\* accepts dimensions off the half-inch grid, and the clamp then commits
\* totalWidth - width.
C10_OnGrid ==
    draggedSquare = null
        => \A i \in DOMAIN squares : OnGrid(squares[i].x) /\ OnGrid(squares[i].y)

----------------------------------------------------------------------------
(* A square of the form's size is created and dragged with the pointer at  *)
(* every eighth of an inch of a range around the corner of the canvas.     *)

SnapInputs == (0 - MaxPointer) .. MaxPointer

NextSnap ==
    \/ \E c \in Colors : Len(squares) < MaxSquares /\ AddSquare(c)
    \/ \E i \in DOMAIN squares : handleMouseDown(i)
    \/ \E x \in SnapInputs, y \in SnapInputs : handleDocumentMouseMove(x, y)
    \/ handleDocumentMouseUp

SpecSnap == Init /\ [][NextSnap]_vars

\* C11: snap(v) = round(v * 2) / 2 is a multiple of 0.5 and
\* snap(snap(v)) = snap(v): the y a drag-move has set is the snap of the
\* pointer's y, lies on the half-inch grid and is its own snap.
C11_SnapIdempotent ==
    (last.op = "dragMove")
    => /\ \E v \in SnapInputs : draggedSquare.y = Snap(v)
       /\ OnGrid(draggedSquare.y)
       /\ Snap(draggedSquare.y) = draggedSquare.y
       /\ \A v \in SnapInputs : OnGrid(Snap(v)) /\ Snap(Snap(v)) = Snap(v)

\* a drag-move has snapped a pointer above and left of the grid point
\* (1.5, -1.5): negative y is rounded like positive y
C11_Witness ==
    /\ last.op = "dragMove"
    /\ draggedSquare.x = 12
    /\ draggedSquare.y = 0 - 12

----------------------------------------------------------------------------
(* The operations of the state container, as steps *)

\* C12: createSquare appends one square with the width and height of the
\* form, in holding at (0, totalHeight + 2) for the current quilt height and
\* buffer; the squares already there keep their fields and their order.
C12_CreateFrame ==
    [][ (last'.op = "addSquare")
        => /\ Len(squares') = Len(squares) + 1
           /\ SubSeq(squares', 1, Len(squares)) = squares
           /\ squares'[Len(squares')].width = width
           /\ squares'[Len(squares')].height = height
           /\ squares'[Len(squares')].isInQuilt = FALSE
           /\ squares'[Len(squares')].x = 0
           /\ squares'[Len(squares')].y
                = quilt.height + 2 * quilt.buffer + Inches(2) ]_vars

\* a third square, wider than the first, has been created on a quilt with a
\* buffer while the first lies in the surface
C12_Witness ==
    /\ last.op = "addSquare"
    /\ Len(squares) = 3
    /\ quilt.buffer > 0
    /\ squares[1].isInQuilt
    /\ squares[3].width > squares[1].width
    /\ squares[3].y = totalHeight(quilt) + Inches(2)

\* C13: the identifiers of the squares of the collection are pairwise
\* distinct, also when two squares are created with no advance of the
\* clock.  The identifier is Date.now().toString(), the same for both.
C13_UniqueIds ==
    \A i, j \in DOMAIN squares : i # j => squares[i].id # squares[j].id

\* the entries of the list that a step has changed
ChangedEntries == {i \in DOMAIN squares : squares'[i] # squares[i]}

\* every square but x, y and membership
SameButPosition(a, b) ==
    /\ a.id = b.id /\ a.width = b.width /\ a.height = b.height
    /\ a.color = b.color

\* C14: updatePosition(id, x, y, membership), which the drag-end calls with
\* the identifier of the dragged square, replaces the x, y and membership of
\* one square, the one with that identifier, and leaves its width, height
\* and fill and every other square unchanged; with no square of that
\* identifier the list is unchanged.
C14_UpdatePositionFrame ==
    [][ (last'.op = "drop" /\ draggedSquare # null)
        => LET r == resolveDrop(draggedSquare, squares, quilt)
           IN  /\ Len(squares') = Len(squares)
               /\ Cardinality(ChangedEntries) <= 1
               /\ \A i \in DOMAIN squares :
                     IF squares[i].id = draggedSquare.id
                     THEN /\ SameButPosition(squares'[i], squares[i])
                          /\ squares'[i].x = r.x /\ squares'[i].y = r.y
                          /\ squares'[i].isInQuilt = r.isInQuilt
                     ELSE squares'[i] = squares[i] ]_vars

----------------------------------------------------------------------------
(* Two squares on the quilts of 2 x 1.5 inches: created, dragged, resized  *)
(* through the edit dialog and removed.                                    *)

OpsEditWidths == {Num(Inches(2))}

OpsEditHeights == {NaN}

NextOps ==
    \/ now < MaxOpsNow /\ Tick
    \/ \E c \in Colors : Len(squares) < MaxOpsSquares /\ AddSquare(c)
    \/ \E i \in DOMAIN squares : RemoveSquare(squares[i].id)
    \/ \E i \in DOMAIN squares : handleMouseDown(i)
    \/ \E x \in DropPointerXs, y \in DropPointerYs :
           handleDocumentMouseMove(x, y)
    \/ handleDocumentMouseUp
    \/ \E i \in DOMAIN squares : startEditingSquare(i)
    \/ cancelEditingSquare
    \/ \E v \in OpsEditWidths : SetEditWidth(v)
    \/ \E v \in OpsEditHeights : SetEditHeight(v)
    \/ saveSquareDimensions

SpecOps == InitDrop /\ [][NextOps]_vars

\* C15: updateDimensions(id, width, height), which the edit dialog calls on
\* Save, replaces the width and height of one square, the one with that
\* identifier, and leaves its x, y and membership and every other square
\* unchanged, whether or not the resized square then overlaps a neighbour
\* or leaves the surface.
C15_UpdateDimensionsFrame ==
    [][ (last'.op = "saveDimensions")
        => /\ Len(squares') = Len(squares)
           /\ Cardinality(ChangedEntries) <= 1
           /\ \A i \in DOMAIN squares :
                 IF squares[i].id = editingSquare.id
                 THEN squares'[i] = [squares[i] EXCEPT !.width = editWidth,
                                                       !.height = editHeight]
                 ELSE squares'[i] = squares[i] ]_vars

\* C16: remove(id) deletes one square, the one with that identifier,
\* whatever its membership, and leaves the other squares unchanged and in
\* their order; with no square of that identifier the list is unchanged.
C16_RemoveFrame ==
    [][ (last'.op = "removeSquare")
        => \/ squares' = squares
           \/ \E i \in DOMAIN squares :
                 squares' = SubSeq(squares, 1, i - 1)
                              \o SubSeq(squares, i + 1, Len(squares)) ]_vars

\* the quilt is the quilt q with one field replaced by a value that the
\* validation of its input accepts
AcceptedEdit(q) ==
    \/ \E v \in QuiltWidthInputs :
          ~ v.isNaN /\ v.value > 0 /\ quilt' = [q EXCEPT !.width = v.value]
    \/ \E v \in QuiltHeightInputs :
          ~ v.isNaN /\ v.value > 0 /\ quilt' = [q EXCEPT !.height = v.value]
    \/ \E v \in QuiltBufferInputs :
          ~ v.isNaN /\ v.value >= 0 /\ quilt' = [q EXCEPT !.buffer = v.value]

\* C17: the quilt always has width > 0, height > 0 and buffer >= 0; an edit
\* of the quilt either takes an accepted value into one field or, the value
\* being not a number, a width or height <= 0 or a buffer < 0, leaves the
\* quilt as it is; no edit changes the squares.
C17_QuiltValid ==
    /\ [](quilt.width > 0 /\ quilt.height > 0 /\ quilt.buffer >= 0)
    /\ [][ (last'.op = "setQuilt")
           => /\ squares' = squares
              /\ quilt' = quilt \/ AcceptedEdit(quilt) ]_vars

\* an edit has been rejected, the quilt being the one of the construction,
\* while a square lies in the surface
C17_Witness ==
    /\ last.op = "setQuilt"
    /\ quilt = [width |-> Inches(60), height |-> Inches(48),
                buffer |-> Inches(5)]
    /\ \E i \in DOMAIN squares : squares[i].isInQuilt

\* C18: every square has width > 0 and height > 0 in every state: neither
\* the creation form nor the edit dialog commits a width or height <= 0.
\* The dialog keeps parseFloat(value) || 1, which a negative number passes.
C18_PositiveDimensions ==
    \A i \in DOMAIN squares : squares[i].width > 0 /\ squares[i].height > 0

----------------------------------------------------------------------------
(* Two squares on the quilts of 2 x 1.5 inches: created, dragged and       *)
(* resized while the quilt inputs change the quilt.                        *)

FramePointerYs == {3, Inches(5)}

NextFrame ==
    \/ now < MaxOpsNow /\ Tick
    \/ \E c \in Colors : Len(squares) < MaxOpsSquares /\ AddSquare(c)
    \/ \E i \in DOMAIN squares : handleMouseDown(i)
    \/ \E x \in DropPointerXs, y \in FramePointerYs :
           handleDocumentMouseMove(x, y)
    \/ handleDocumentMouseUp
    \/ \E i \in DOMAIN squares : startEditingSquare(i)
    \/ \E v \in OpsEditWidths : SetEditWidth(v)
    \/ saveSquareDimensions
    \/ \E v \in QuiltWidthInputs : SetQuiltWidth(v)
    \/ \E v \in QuiltHeightInputs : SetQuiltHeight(v)
    \/ \E v \in QuiltBufferInputs : SetQuiltBuffer(v)

SpecFrame == InitDrop /\ [][NextFrame]_vars

\* C19: membership and committed position change at drag-end only: a
\* createSquare, an updateDimensions, an edit of the quilt, a drag-start or
\* a drag-move, like every step but a drag-end and a removal, leaves every
\* square of the list with its x, y and membership.
C19_PositionFrame ==
    [][ (last'.op \notin {"drop", "removeSquare"})
        => /\ Len(squares') >= Len(squares)
           /\ \A i \in DOMAIN squares :
                 /\ squares'[i].x = squares[i].x
                 /\ squares'[i].y = squares[i].y
                 /\ squares'[i].isInQuilt = squares[i].isInQuilt ]_vars

\* an edit of the quilt has left a square, resized before, in the surface
\* at a place that is no longer within the surface
C19_Witness ==
    /\ last.op = "setQuilt"
    /\ Len(squares) = 2
    /\ \E i \in DOMAIN squares :
          /\ squares[i].isInQuilt
          /\ squares[i].width = Inches(2)
          /\ ~ WithinBounds(squares[i])

\* C20: a drag-start and a drag-move change the dragged square alone and
\* leave the list of committed squares as it is: the drag-start takes a
\* square of the list, the drag-move gives it the snapped x of the pointer
\* clamped into [0, totalWidth - width] and the snapped y of the pointer,
\* not clamped, and nothing else.
C20_DragFrame ==
    [][ /\ (last'.op \in {"dragStart", "dragMove"})
           => UNCHANGED <<quilt, squares, now, width, height, editingSquare,
                          editWidth, editHeight>>
        /\ (last'.op = "dragStart")
           => \E i \in DOMAIN squares : draggedSquare' = squares[i]
        /\ (last'.op = "dragMove")
           => \E px \in DropPointerXs, py \in DropPointerYs :
                 draggedSquare' =
                   [draggedSquare EXCEPT
                      !.x = Max(0, Min(Snap(px),
                                       totalWidth(quilt) - draggedSquare.width)),
                      !.y = Snap(py)] ]_vars

\* a square of the surface is dragged above the surface, at the right edge,
\* and still lies in the list where it was
C20_Witness ==
    /\ last.op = "dragMove"
    /\ draggedSquare.y < 0
    /\ draggedSquare.x > 0
    /\ draggedSquare.x = totalWidth(quilt) - draggedSquare.width
    /\ \E i \in DOMAIN squares :
          /\ squares[i].id = draggedSquare.id
          /\ squares[i].isInQuilt
          /\ squares[i].x = 0 /\ squares[i].y >= 0

----------------------------------------------------------------------------
\* C21: in every state, also after an edit of the quilt height or buffer,
\* every square in holding has y >= totalHeight + 2 for the current quilt.
\* createSquare and the drag-end set y from the quilt of their time and an
\* edit of the quilt leaves the squares where they are.
C21_HoldingBelowSurface ==
    \A i \in DOMAIN squares :
        ~ squares[i].isInQuilt
            => squares[i].y >= totalHeight(quilt) + Inches(2)

\* C22: the test of the drag-end is inclusive at both edges: the dragged
\* square goes to the surface exactly when its proposed position has
\* 0 <= x <= totalWidth - width and 0 <= y <= totalHeight - height, and to
\* holding otherwise.
C22_InclusiveEdges ==
    (IsDrop /\ DroppedIn(last.squares) # {})
    => \A i \in DroppedIn(squares) :
          squares[i].isInQuilt
            <=> /\ 0 <= last.final.x
                /\ last.final.x <= totalWidth(quilt) - last.final.width
                /\ 0 <= last.final.y
                /\ last.final.y <= totalHeight(quilt) - last.final.height

\* a drop exactly at (totalWidth - width, totalHeight - height), away from
\* the origin, has gone to the surface
C22_Witness ==
    /\ IsDrop
    /\ last.final.x = totalWidth(quilt) - last.final.width
    /\ last.final.y = totalHeight(quilt) - last.final.height
    /\ last.final.x > 0 /\ last.final.y > 0
    /\ DroppedIn(squares) # {}
    /\ \A i \in DroppedIn(squares) : squares[i].isInQuilt

----------------------------------------------------------------------------
(* The earlier variant of the application, without buffer: its quilt has a *)
(* width and a height only, and the buffer field of quilt stays 0 and is   *)
(* not read.  Its names carry the prefix P0.                               *)

\* the holding row of the variant: quilt.height + 2
P0_newSquare(w, h, c) ==
    [id |-> now, width |-> w, height |-> h, color |-> c,
     x |-> 0, y |-> quilt.height + HoldingOffset, isInQuilt |-> FALSE]

\* handleSubmit -> addSquare, the name typed not being blank
P0_addSquare(c) ==
    /\ squares' = Append(squares, P0_newSquare(width, height, c))
    /\ last' = Did("addSquare")
    /\ UNCHANGED <<quilt, now, width, height, draggedSquare, editingSquare,
                   editWidth, editHeight>>

P0_handleMouseDown(i) == StartDrag(i)

\* the pointer at (x, y): x and y are both snapped and clamped
P0_handleMouseMove(x, y) ==
    /\ draggedSquare # null
    /\ draggedSquare' =
         [draggedSquare EXCEPT
             !.x = Clamp(Snap(x), quilt.width - draggedSquare.width),
             !.y = Clamp(Snap(y), quilt.height - draggedSquare.height)]
    /\ last' = Did("dragMove")
    /\ UNCHANGED <<quilt, squares, now, width, height, editingSquare,
                   editWidth, editHeight>>

\* the test of handleMouseUp: the corner of the box lies in the quilt
P0_isInQuilt(finalSquare, q) ==
    /\ finalSquare.y >= 0 /\ finalSquare.y < q.height
    /\ finalSquare.x >= 0 /\ finalSquare.x < q.width

\* the resolver of the variant is the text of findNearestAvailablePosition
\* with quiltWidth and quiltHeight for totalWidth and totalHeight
P0_findNearestAvailablePosition(d, existingSquares, q) ==
    findNearestAvailablePosition(d, existingSquares,
        [width |-> q.width, height |-> q.height, buffer |-> 0])

P0_resolveDrop(finalSquare, sqs, q) ==
    IF P0_isInQuilt(finalSquare, q)
    THEN LET snappedPosition ==
                 P0_findNearestAvailablePosition(finalSquare,
                                                 quiltSquares(sqs), q)
         IN  [x |-> snappedPosition.x, y |-> snappedPosition.y,
              isInQuilt |-> TRUE]
    ELSE [x |-> 0, y |-> q.height + HoldingOffset, isInQuilt |-> FALSE]

\* onMouseUp and onMouseLeave of the quilt area and of the holding area
P0_handleMouseUp ==
    IF draggedSquare = null
    THEN UNCHANGED vars
    ELSE LET r == P0_resolveDrop(draggedSquare, squares, quilt)
         IN  /\ squares' = updateSquarePosition(squares, draggedSquare.id,
                                                r.x, r.y, r.isInQuilt)
             /\ draggedSquare' = null
             /\ last' = Dropped
             /\ UNCHANGED <<quilt, now, width, height, editingSquare,
                            editWidth, editHeight>>

\* the variant on a quilt of 2 x 1.5 inches, which its quilt inputs reach
\* before a square is created, with squares of 1 x 1 and of 3 x 1
P0_Quilt == [width |-> Inches(2), height |-> 12, buffer |-> 0]

P0_WidthInputs == {Num(Inches(1)), Num(Inches(3))}

P0_Init ==
    /\ quilt = P0_Quilt
    /\ squares = << >>
    /\ now = 0
    /\ width = Inches(1)
    /\ height = Inches(1)
    /\ draggedSquare = null
    /\ editingSquare = null
    /\ editWidth = Inches(12)
    /\ editHeight = Inches(12)
    /\ last = Did("init")

P0_Next ==
    \/ now < MaxOpsNow /\ Tick
    \/ \E v \in P0_WidthInputs : SetWidth(v)
    \/ \E c \in Colors : Len(squares) < MaxOpsSquares /\ P0_addSquare(c)
    \/ \E i \in DOMAIN squares : P0_handleMouseDown(i)
    \/ \E x \in DropPointerXs, y \in DropPointerYs : P0_handleMouseMove(x, y)
    \/ P0_handleMouseUp

P0_Spec == P0_Init /\ [][P0_Next]_vars

\* C23: in the variant every square with isInQuilt = true has
\* 0 <= x <= quilt.width - width and 0 <= y <= quilt.height - height, the
\* squares wider or taller than the quilt included.  The test of
\* handleMouseUp looks at the corner of the box only, and the clamp puts a
\* square wider than the quilt at x = 0.
C23_VariantWithinBounds ==
    \A i \in DOMAIN squares :
        squares[i].isInQuilt
        => /\ 0 <= squares[i].x
           /\ squares[i].x <= quilt.width - squares[i].width
           /\ 0 <= squares[i].y
           /\ squares[i].y <= quilt.height - squares[i].height

----------------------------------------------------------------------------
(* Two squares of two colours, created and dragged on the quilts of        *)
(* 2 x 1.5 inches.                                                         *)

DetColors == 1 .. NumDetColors

NextDet ==
    \/ now < MaxOpsNow /\ Tick
    \/ \E v \in DropWidthInputs : SetWidth(v)
    \/ \E c \in DetColors : Len(squares) < MaxOpsSquares /\ AddSquare(c)
    \/ \E i \in DOMAIN squares : handleMouseDown(i)
    \/ \E x \in DropPointerXs, y \in DropPointerYs :
           handleDocumentMouseMove(x, y)
    \/ handleDocumentMouseUp

SpecDet == InitDrop /\ [][NextDet]_vars

\* the boxes <<x, y, width, height>> of the in-surface squares of the list
\* sqs whose identifier is not id: a set, without order and without colour
BoxesBut(sqs, id) ==
    {<<sqs[i].x, sqs[i].y, sqs[i].width, sqs[i].height>> :
        i \in {j \in DOMAIN sqs : sqs[j].isInQuilt /\ sqs[j].id # id}}

BoxBlocked(x, y, w, h, boxes) ==
    \E b \in boxes : BoxesOverlap(x, y, w, h, b[1], b[2], b[3], b[4])

\* the position and membership of a drop as a function of the proposed
\* position, the size of the dragged square, the boxes of the other
\* in-surface squares and the quilt, and of nothing else
ExpectedDrop(x, y, w, h, boxes, q) ==
    LET sx == Max(0, Min(Snap(x), totalWidth(q) - w))
        sy == Max(0, Min(Snap(y), totalHeight(q) - h))
        free == {c \in (0 .. totalWidth(q) - w) \X (0 .. totalHeight(q) - h) :
                    OnGrid(c[1]) /\ OnGrid(c[2])
                    /\ ~ BoxBlocked(c[1], c[2], w, h, boxes)}
        d2(c) == (c[1] - x) * (c[1] - x) + (c[2] - y) * (c[2] - y)
    IN  IF ~ (0 <= x /\ x <= totalWidth(q) - w
              /\ 0 <= y /\ y <= totalHeight(q) - h)
        THEN [x |-> Max(0, Min(x, totalWidth(q) - w)),
              y |-> totalHeight(q) + Inches(2), isInQuilt |-> FALSE]
        ELSE IF ~ BoxBlocked(sx, sy, w, h, boxes) \/ free = {}
        THEN [x |-> sx, y |-> sy, isInQuilt |-> TRUE]
        ELSE LET c == CHOOSE c \in free :
                         \A e \in free :
                            \/ d2(c) < d2(e)
                            \/ d2(c) = d2(e) /\ ScannedBefore(c, e)
             IN  [x |-> c[1], y |-> c[2], isInQuilt |-> TRUE]

\* C24: the resolver is deterministic: the position and membership a
\* drag-end commits are a function of the dragged square's identifier, size
\* and proposed position, of the set of in-surface squares and of the
\* quilt; the history, the order of the list, the squares in holding and
\* the colours do not enter.
C24_Deterministic ==
    (IsDrop /\ DroppedIn(last.squares) # {})
    => LET r == ExpectedDrop(last.final.x, last.final.y, last.final.width,
                             last.final.height,
                             BoxesBut(last.squares, last.final.id), quilt)
       IN  CommittedAt(r.x, r.y, r.isInQuilt)

\* a square of the second colour, dropped on a square of the first colour,
\* has been given a free cell by the search
C24_Witness ==
    /\ SearchedDrop /\ FreeCells # {}
    /\ last.final.color = 2
    /\ \E i \in Others : last.squares[i].color = 1
    /\ \E i \in DroppedIn(squares) :
          squares[i].isInQuilt
          /\ <<squares[i].x, squares[i].y>> # <<SnappedX, SnappedY>>

----------------------------------------------------------------------------
\* C25: a drag-end changes at most the x, y and membership of the squares
\* whose identifier is the dragged square's: the number of squares, their
\* order, the id, width, height and fill of every square and the whole of
\* every square with another identifier are unchanged.
C25_DropFrame ==
    [][ (last'.op = "drop" /\ draggedSquare # null)
        => /\ Len(squares') = Len(squares)
           /\ \A i \in DOMAIN squares :
                 /\ SameButPosition(squares'[i], squares[i])
                 /\ squares[i].id # draggedSquare.id
                      => squares'[i] = squares[i] ]_vars

\* a drop has moved the two squares that carry the dragged identifier and
\* has left the third square, of another identifier, in the surface
C25_Witness ==
    /\ IsDrop
    /\ Len(squares) = 3 /\ Len(last.squares) = 3
    /\ Cardinality(DroppedIn(squares)) = 2
    /\ \A i \in DroppedIn(squares) : squares[i] # last.squares[i]
    /\ \E j \in Others : squares[j] = last.squares[j]

\* C26: a drag-end that finds a drag in progress makes one commit for the
\* dragged square, which gives the squares of its identifier one position
\* and membership, and leaves no square in drag; the drag ends in no other
\* way; a drag-end that finds no drag in progress changes nothing, so that
\* no step taken without a drag is a commit.
C26_DragLifecycle ==
    [][ /\ (draggedSquare # null /\ last'.op = "drop")
           => /\ draggedSquare' = null
              /\ last'.final = draggedSquare
              /\ \A i, j \in DOMAIN squares' :
                    (squares'[i].id = draggedSquare.id
                       /\ squares'[j].id = draggedSquare.id)
                    => /\ squares'[i].x = squares'[j].x
                       /\ squares'[i].y = squares'[j].y
                       /\ squares'[i].isInQuilt = squares'[j].isInQuilt
        /\ (draggedSquare # null /\ draggedSquare' = null)
           => last'.op = "drop"
        /\ (draggedSquare = null)
           => /\ last'.op = "drop" => last' = last
              /\ draggedSquare' # null => last'.op = "dragStart" ]_vars

\* a drag that was started on a square in holding and moved has ended with
\* the square committed in the surface and no square in drag
C26_Witness ==
    /\ IsDrop
    /\ draggedSquare = null
    /\ \E i \in DroppedIn(last.squares) :
          /\ ~ last.squares[i].isInQuilt
          /\ squares[i].isInQuilt
          /\ squares[i].x = last.final.x /\ squares[i].y = last.final.y

\* the dragged square is wider or taller than the surface
OversizeDrop ==
    /\ IsDrop /\ DroppedIn(last.squares) # {}
    /\ \/ last.final.width > totalWidth(quilt)
       \/ last.final.height > totalHeight(quilt)

\* C27 as stated: every drop of a square wider or taller than the surface
\* commits it in holding at x = 0 and y = totalHeight + 2.
C27_OversizeAsStated ==
    OversizeDrop => CommittedAt(0, totalHeight(quilt) + Inches(2), FALSE)

\* C27, amended: every drop of a square wider or taller than the surface
\* commits it in holding at y = totalHeight + 2 and at the proposed x
\* clamped into [0, totalWidth - width], which is 0 when the square is wider
\* than the surface.
C27_Oversize ==
    OversizeDrop
    => /\ CommittedAt(Max(0, Min(last.final.x,
                                 totalWidth(quilt) - last.final.width)),
                      totalHeight(quilt) + Inches(2), FALSE)
       /\ last.final.width > totalWidth(quilt)
            => CommittedAt(0, totalHeight(quilt) + Inches(2), FALSE)

\* a square wider than the surface, not taller, is dropped at a height
\* within the surface and goes to holding at x = 0
C27_Witness ==
    /\ OversizeDrop
    /\ last.final.width > totalWidth(quilt)
    /\ 0 <= last.final.y
    /\ last.final.y <= totalHeight(quilt) - last.final.height
    /\ CommittedAt(0, totalHeight(quilt) + Inches(2), FALSE)

====
